---------------------------- MODULE Spec2Model ----------------------------
(***************************************************************************)
(* Single-step advance subsystem of odelab: the default Scheme step        *)
(* (root-finder fallback and compensated summation), the closed-form       *)
(* scheme variants, the adaptive step size of RungeKutta34, the ode15s     *)
(* adapter around an external stiff solver, and the splitting of a         *)
(* nonholonomic system into two vector fields.                             *)
(*                                                                         *)
(* Each family of classes has its own state variable and its own           *)
(* specification (SpecScheme, SpecVariants, SpecOde, SpecNH); a            *)
(* specification leaves the other families' variables at their initial     *)
(* value.                                                                  *)
(***************************************************************************)
EXTENDS Integers, Sequences, FiniteSets, TLC

VARIABLES sch, var, ode, nh

vars == <<sch, var, ode, nh>>

Abs(x) == IF x < 0 THEN -x ELSE x

Sign(x) == IF x < 0 THEN -1 ELSE 1

(***************************************************************************)
(* Floating point.  The default step works on Python floats; the model     *)
(* keeps the format's behaviour (binary, round to nearest, ties to even)   *)
(* with a significand of Prec bits.  A float is an integer whose           *)
(* magnitude has at most Prec significant bits; Fl rounds an exact result  *)
(* to the nearest float, as every floating-point operation does.           *)
(***************************************************************************)
Prec == 3

Pow2(n) == 2 ^ n

RECURSIVE Ulp(_, _)
Ulp(a, q) == IF a < Pow2(Prec) * q THEN q ELSE Ulp(a, 2 * q)

Fl(x) ==
  LET a   == Abs(x)
      q   == Ulp(a, 1)
      lo  == (a \div q) * q
      rem == a - lo
      r   == IF 2 * rem < q THEN lo
             ELSE IF 2 * rem > q THEN lo + q
             ELSE IF (lo \div q) % 2 = 0 THEN lo ELSE lo + q
  IN  Sign(x) * r

IsFloat(x) == Fl(x) = x

\* the floating-point operations of the step
FAdd(x, y) == Fl(x + y)

FSub(x, y) == Fl(x - y)

(***************************************************************************)
(* Bounds of the default-scheme model.                                     *)
(***************************************************************************)
MaxVal == 32

MaxT == 3

\* increments the root solvers may return
DuSet == {-8, -3, -1, 0, 1, 3, 8}

\* initial states the caller may hand to the scheme
U0Set == {0, 1, 8, -6, 20}

HSet == {1, 2}

(***************************************************************************)
(* Root solvers (odelab.newton).  run(guess) returns a root or raises;     *)
(* the outcome is an input of the model: [ok |-> TRUE, root |-> r] is a    *)
(* converged run, [ok |-> FALSE, ...] a run that raises.                   *)
(***************************************************************************)
Converged(r) == [ok |-> TRUE, root |-> r]

NotConverged == [ok |-> FALSE, root |-> 0]

SolverOutcomes == {Converged(r) : r \in DuSet} \cup {NotConverged}

\* the residual closure built from (t,u0,h): identified by what it captures
get_residual(t, u0, h) == <<t, u0, h>>

SolverCall(name, residual, guess) ==
  [solver |-> name, residual |-> residual, guess |-> guess]

\* Scheme.get_guess: zeros_like(u0)
get_guess(t, u0, h) == 0

\* Scheme.reconstruct: the root is already delta u
reconstruct(root) == root

\* delta with a fault: no fallback, the direct solver's failure propagates
delta_NoFallback(t, u0, h, fs, nw) ==
  LET residual == get_residual(t, u0, h)
      guess    == get_guess(t, u0, h)
      c1       == SolverCall("FSolve", residual, guess)
  IN  IF fs.ok
      THEN [raised |-> FALSE, t1 |-> t + h, du |-> reconstruct(fs.root),
            calls |-> <<c1>>]
      ELSE [raised |-> TRUE, t1 |-> 0, du |-> 0, calls |-> <<c1>>]

\* Scheme.delta: fs and nw are the outcomes FSolve and Newton would have on
\* (residual, guess); Newton is run only in the except branch
delta(t, u0, h, fs, nw) ==
  LET residual == get_residual(t, u0, h)
      guess    == get_guess(t, u0, h)
      c1       == SolverCall("FSolve", residual, guess)
      c2       == SolverCall("Newton", residual, guess)
  IN  IF fs.ok
      THEN [raised |-> FALSE, t1 |-> t + h, du |-> reconstruct(fs.root),
            calls |-> <<c1>>]
      ELSE IF nw.ok
      THEN [raised |-> FALSE, t1 |-> t + h, du |-> reconstruct(nw.root),
            calls |-> <<c1, c2>>]
      ELSE [raised |-> TRUE, t1 |-> 0, du |-> 0, calls |-> <<c1, c2>>]

NoLast ==
  [kind |-> "none", t0 |-> 0, u0 |-> 0, h |-> 0, c0 |-> 0,
   fs |-> NotConverged, nw |-> NotConverged,
   d |-> [raised |-> FALSE, t1 |-> 0, du |-> 0, calls |-> <<>>],
   raised |-> FALSE, t1 |-> 0, u1 |-> 0]

\* step with a fault: the correction is added with the wrong sign
step_WrongSign(s, h, fs, nw) ==
  LET d  == delta(s.t, s.u, h, fs, nw)
      c1 == FAdd(s.roundoff, d.du)
      u1 == FAdd(s.u, c1)
      c2 == FAdd(c1, FSub(u1, s.u))
      l  == [kind |-> "step", t0 |-> s.t, u0 |-> s.u, h |-> h,
             c0 |-> s.roundoff, fs |-> fs, nw |-> nw, d |-> d,
             raised |-> d.raised, t1 |-> d.t1, u1 |-> u1]
  IN  IF d.raised
      THEN [s EXCEPT !.last = [l EXCEPT !.u1 = 0]]
      ELSE [s EXCEPT !.roundoff = c2, !.t = d.t1, !.u = u1, !.last = l]

\* step with a fault: a failed delta resets the accumulator
step_ResetOnFailure(s, h, fs, nw) ==
  LET d  == delta(s.t, s.u, h, fs, nw)
      c1 == FAdd(s.roundoff, d.du)
      u1 == FAdd(s.u, c1)
      c2 == FAdd(c1, FSub(s.u, u1))
      l  == [kind |-> "step", t0 |-> s.t, u0 |-> s.u, h |-> h,
             c0 |-> s.roundoff, fs |-> fs, nw |-> nw, d |-> d,
             raised |-> d.raised, t1 |-> d.t1, u1 |-> u1]
  IN  IF d.raised
      THEN [s EXCEPT !.roundoff = 0, !.last = [l EXCEPT !.u1 = 0]]
      ELSE [s EXCEPT !.roundoff = c2, !.t = d.t1, !.u = u1, !.last = l]

\* Scheme.step (compensated summation).  s is the scheme together with the
\* (t,u) its caller holds; the caller feeds the returned (t1,u1) back.  When
\* delta raises nothing after it is executed: the scheme is left as it was.
step(s, h, fs, nw) ==
  LET d  == delta(s.t, s.u, h, fs, nw)
      c1 == FAdd(s.roundoff, d.du)
      u1 == FAdd(s.u, c1)
      c2 == FAdd(c1, FSub(s.u, u1))
      l  == [kind |-> "step", t0 |-> s.t, u0 |-> s.u, h |-> h,
             c0 |-> s.roundoff, fs |-> fs, nw |-> nw, d |-> d,
             raised |-> d.raised, t1 |-> d.t1, u1 |-> u1]
  IN  IF d.raised
      THEN [s EXCEPT !.last = [l EXCEPT !.u1 = 0]]
      ELSE [s EXCEPT !.roundoff = c2, !.t = d.t1, !.u = u1, !.last = l]

\* Scheme.initialize: the accumulator starts at 0.
initialize(s, u0) ==
  [s EXCEPT !.inited = TRUE, !.roundoff = 0, !.t = 0, !.u = u0]

SchInit ==
  [inited |-> FALSE, roundoff |-> 0, t |-> 0, u |-> 0, last |-> NoLast]

SchemeInitialize ==
  /\ ~sch.inited
  /\ \E u0 \in U0Set : sch' = initialize(sch, u0)
  /\ UNCHANGED <<var, ode, nh>>

\* the intermediate and final sums stay within the modelled range
InRange(s, fs, nw) ==
  LET du == IF fs.ok THEN fs.root ELSE nw.root
  IN  /\ Abs(s.roundoff + du) <= MaxVal
      /\ Abs(s.u + FAdd(s.roundoff, du)) <= MaxVal

SchemeStep ==
  /\ sch.inited
  /\ \E h \in HSet, fs \in SolverOutcomes, nw \in SolverOutcomes :
       /\ sch.t + h <= MaxT
       /\ InRange(sch, fs, nw)
       /\ sch' = step(sch, h, fs, nw)
  /\ UNCHANGED <<var, ode, nh>>

(***************************************************************************)
(* Exact rational arithmetic for the closed-form variants: <<n, d>> with   *)
(* d > 0 in lowest terms.  Products and sums cancel common factors before  *)
(* multiplying.                                                            *)
(***************************************************************************)
RECURSIVE GCD(_, _)
GCD(a, b) == IF b = 0 THEN a ELSE GCD(b, a % b)

R(n, d) ==
  LET g == GCD(Abs(n), Abs(d))
      s == IF d < 0 THEN -1 ELSE 1
  IN  <<(s * n) \div g, (s * d) \div g>>

RInt(k) == <<k, 1>>

RNeg(a) == <<-a[1], a[2]>>

RAbs(a) == <<Abs(a[1]), a[2]>>

RMul(a, b) ==
  LET g1 == GCD(Abs(a[1]), b[2])
      g2 == GCD(Abs(b[1]), a[2])
  IN  R((a[1] \div g1) * (b[1] \div g2), (a[2] \div g2) * (b[2] \div g1))

RAdd(a, b) ==
  LET g == GCD(a[2], b[2])
  IN  R(a[1] * (b[2] \div g) + b[1] * (a[2] \div g), (a[2] \div g) * b[2])

RSub(a, b) == RAdd(a, RNeg(b))

RInv(a) == R(a[2], a[1])

RDiv(a, b) == RMul(a, RInv(b))

RLess(a, b) == RSub(a, b)[1] < 0

RPow4(a) == RMul(RMul(a, a), RMul(a, a))

(***************************************************************************)
(* Bounds of the variants' model.                                          *)
(***************************************************************************)
MaxSteps == 2

\* denominators beyond which a state is not stepped further
DenCap == 100000

Classes ==
  {"ExplicitEuler", "ImplicitEuler", "RungeKutta4", "ExplicitTrapezoidal",
   "RungeKutta34"}

\* step sizes a caller passes, and step sizes a scheme is constructed with
HArgs == {<<1, 1>>, <<1, 2>>, <<2, 1>>}

\* the system is f(t,u) = lam*u
Lams == {-1, -2}

\* initial states, in units of the tolerance 1e-6
VarU0 ==
  {<<0, 1>>, <<1, 1>>, <<24, 1>>, <<3, 2>>, <<384, 1>>, <<43923, 1250>>,
   <<6, 1562500>>, <<3, 125000000>>, <<3, 250000000>>}

\* system.f
f(lam, t, u) == RMul(RInt(lam), u)

(***************************************************************************)
(* Results of a step: raised, or the pair (t1, u1).                        *)
(***************************************************************************)
Raise == [raised |-> TRUE, t1 |-> <<0, 1>>, u1 |-> <<0, 1>>]

Return(t1, u1) == [raised |-> FALSE, t1 |-> t1, u1 |-> u1]

\* ExplicitEuler.step; reading self.h raises when the scheme has none
ExplicitEuler_step(v, t, u, h) ==
  IF ~v.hset THEN Raise
  ELSE Return(RAdd(t, h), RAdd(u, RMul(v.h, f(v.lam, t, u))))

\* the residual closure of ImplicitEuler.step
ImplicitEuler_residual(v, t, u, h, u1) ==
  RSub(RSub(u1, u), RMul(h, f(v.lam, RAdd(t, h), u1)))

\* what a converged run returns: the root of that residual, which for
\* f = lam*u is u / (1 - h*lam)
ImplicitEuler_root(v, t, u, h) ==
  CHOOSE r \in {RDiv(u, RSub(RInt(1), RMul(h, RInt(v.lam))))} :
    ImplicitEuler_residual(v, t, u, h, r) = <<0, 1>>

\* ImplicitEuler.step: root_solver is FSolve; its run is not guarded, so a
\* DidNotConverge leaves the step; the time returned is t + self.h
ImplicitEuler_step(v, t, u, h, fsok) ==
  IF ~fsok THEN Raise
  ELSE IF ~v.hset THEN Raise
  ELSE Return(RAdd(t, v.h), ImplicitEuler_root(v, t, u, h))

\* the root-solver runs of ImplicitEuler.step
ImplicitEuler_calls(v, t, u, h) ==
  <<[solver |-> "FSolve", residual |-> <<t, u, h>>,
     guess |-> RAdd(u, RMul(h, f(v.lam, t, u)))]>>

Half == <<1, 2>>

Sixth == <<1, 6>>

Two == <<2, 1>>

\* RungeKutta4.step
RungeKutta4_step(v, t, u, h) ==
  LET Y1 == f(v.lam, t, u)
      Y2 == f(v.lam, RAdd(t, RMul(h, Half)),
              RAdd(u, RMul(RMul(h, Y1), Half)))
      Y3 == f(v.lam, RAdd(t, RMul(h, Half)),
              RAdd(u, RMul(RMul(h, Y2), Half)))
      Y4 == f(v.lam, RAdd(t, h), RAdd(u, RMul(h, Y3)))
      sm == RAdd(RAdd(Y1, RMul(Two, Y2)), RAdd(RMul(Two, Y3), Y4))
  IN  Return(RAdd(t, h), RAdd(u, RMul(RMul(h, Sixth), sm)))

\* ExplicitTrapezoidal.step
ExplicitTrapezoidal_step(v, t, u, h) ==
  LET u1  == RAdd(u, RMul(h, f(v.lam, t, u)))
      res == RAdd(u, RMul(RMul(h, Half),
                          RAdd(f(v.lam, t, u), f(v.lam, RAdd(t, h), u1))))
  IN  Return(RAdd(t, h), res)

\* RungeKutta34.step: the pair it returns and the self.error it stores, the
\* norm of h/6*(2*Y2 + Z3 - 2*Y3 - Y4)
RungeKutta34_step(v, t, u, h) ==
  LET Y1 == f(v.lam, t, u)
      Y2 == f(v.lam, RAdd(t, RMul(h, Half)),
              RAdd(u, RMul(RMul(h, Y1), Half)))
      Y3 == f(v.lam, RAdd(t, RMul(h, Half)),
              RAdd(u, RMul(RMul(h, Y2), Half)))
      Z3 == f(v.lam, RAdd(t, h),
              RAdd(RSub(u, RMul(h, Y1)), RMul(RMul(Two, h), Y2)))
      Y4 == f(v.lam, RAdd(t, h), RAdd(u, RMul(h, Y3)))
      er == RSub(RSub(RAdd(RMul(Two, Y2), Z3), RMul(Two, Y3)), Y4)
      sm == RAdd(RAdd(Y1, RMul(Two, Y2)), RAdd(RMul(Two, Y3), Y4))
  IN  [raised |-> FALSE, t1 |-> RAdd(t, h),
       u1 |-> RAdd(u, RMul(RMul(h, Sixth), sm)),
       error |-> RAbs(RMul(RMul(h, Sixth), er))]

(***************************************************************************)
(* RungeKutta34.increment_stepsize.  Quantities are in units of            *)
(* tol = 1e-6, in which the threshold 1e-15 is 1/ErrFloorInv.              *)
(***************************************************************************)
tol == <<1, 1>>

ErrFloorInv == 1000000000

error_order == 4

\* self.error > 1e-15
AboveFloor(e) == e[1] > e[2] \div ErrFloorInv

\* the integers whose 4th power fits the machine integer
Roots4 == 0..215

IsPow4(n) == \E p \in Roots4 : p ^ error_order = n

IRoot4(n) == CHOOSE p \in Roots4 : p ^ error_order = n

\* x ** (1/error_order) is modelled where it is exact: on the rationals
\* that are 4th powers of rationals
HasRoot(x) == IsPow4(x[1]) /\ IsPow4(x[2])

Root(x) == <<IRoot4(x[1]), IRoot4(x[2])>>

\* increment_stepsize with a fault: the ratio is inverted
increment_stepsize_Inverted(v) ==
  IF AboveFloor(v.error)
  THEN IF ~v.hset THEN [v EXCEPT !.incRaised = TRUE]
       ELSE [v EXCEPT !.h = RMul(v.h, Root(RDiv(v.error, tol))),
                      !.incRaised = FALSE]
  ELSE [v EXCEPT !.h = <<1, 1>>, !.hset = TRUE, !.incRaised = FALSE]

\* RungeKutta34.increment_stepsize
increment_stepsize(v) ==
  IF AboveFloor(v.error)
  THEN IF ~v.hset THEN [v EXCEPT !.incRaised = TRUE]
       ELSE [v EXCEPT !.h = RMul(v.h, Root(RDiv(tol, v.error))),
                      !.incRaised = FALSE]
  ELSE [v EXCEPT !.h = <<1, 1>>, !.hset = TRUE, !.incRaised = FALSE]

(***************************************************************************)
(* The variants' state: the scheme (class, self.h when set, self.error),   *)
(* its system, the (t,u) its caller holds, and the last call.              *)
(***************************************************************************)
Zero == <<0, 1>>

VarNoLast ==
  [kind |-> "none", t0 |-> Zero, u0 |-> Zero, harg |-> Zero, h0 |-> Zero,
   hset0 |-> FALSE, err0 |-> Zero, fsok |-> FALSE, nwok |-> FALSE,
   raised |-> FALSE, t1 |-> Zero, u1 |-> Zero, calls |-> <<>>]

VarInit ==
  [cls |-> "none", hset |-> FALSE, h |-> Zero, lam |-> 0, t |-> Zero,
   u |-> Zero, error |-> Zero, nsteps |-> 0, incRaised |-> FALSE,
   last |-> VarNoLast]

\* Scheme.__init__(h): self.h is set only when h is given
Scheme_init(cls, hgiven, h, lam, u0) ==
  [VarInit EXCEPT !.cls = cls, !.hset = hgiven,
                  !.h = IF hgiven THEN h ELSE Zero, !.lam = lam, !.u = u0]

\* what a step call leaves behind: the caller takes (t1,u1) when the call
\* returned and keeps (t,u) when it raised
AfterStep(v, harg, res, fsok, nwok, calls, err) ==
  LET l == [kind |-> "step", t0 |-> v.t, u0 |-> v.u, harg |-> harg,
            h0 |-> v.h, hset0 |-> v.hset, err0 |-> v.error, fsok |-> fsok,
            nwok |-> nwok, raised |-> res.raised, t1 |-> res.t1,
            u1 |-> res.u1, calls |-> calls]
  IN  IF res.raised
      THEN [v EXCEPT !.nsteps = v.nsteps + 1, !.last = l]
      ELSE [v EXCEPT !.nsteps = v.nsteps + 1, !.last = l, !.t = res.t1,
                     !.u = res.u1, !.error = err]

\* the arithmetic of a step on (u, h) stays within the machine integers
Steppable(v, h) ==
  /\ v.nsteps < MaxSteps
  /\ \/ v.u[2] <= DenCap
     \/ v.nsteps = 0 /\ h = <<1, 1>>

Construct ==
  /\ var.cls = "none"
  /\ \E cls \in Classes, hgiven \in BOOLEAN, h \in HArgs, lam \in Lams,
        u0 \in VarU0 :
       /\ ~hgiven => h = <<1, 1>>
       /\ u0[2] > DenCap => (cls = "RungeKutta34" /\ lam = -1)
       /\ var' = Scheme_init(cls, hgiven, h, lam, u0)
  /\ UNCHANGED <<sch, ode, nh>>

ExplicitEulerStep ==
  /\ var.cls = "ExplicitEuler"
  /\ \E h \in HArgs :
       /\ Steppable(var, h)
       /\ var' = AfterStep(var, h, ExplicitEuler_step(var, var.t, var.u, h),
                           FALSE, FALSE, <<>>, var.error)
  /\ UNCHANGED <<sch, ode, nh>>

\* fsok, nwok: whether FSolve, and Newton had it been run, converge on the
\* residual from the guess
ImplicitEulerStep ==
  /\ var.cls = "ImplicitEuler"
  /\ \E h \in HArgs, fsok \in BOOLEAN, nwok \in BOOLEAN :
       /\ Steppable(var, h)
       /\ var' = AfterStep(var, h,
                           ImplicitEuler_step(var, var.t, var.u, h, fsok),
                           fsok, nwok,
                           ImplicitEuler_calls(var, var.t, var.u, h),
                           var.error)
  /\ UNCHANGED <<sch, ode, nh>>

RungeKutta4Step ==
  /\ var.cls = "RungeKutta4"
  /\ \E h \in HArgs :
       /\ Steppable(var, h)
       /\ var' = AfterStep(var, h, RungeKutta4_step(var, var.t, var.u, h),
                           FALSE, FALSE, <<>>, var.error)
  /\ UNCHANGED <<sch, ode, nh>>

ExplicitTrapezoidalStep ==
  /\ var.cls = "ExplicitTrapezoidal"
  /\ \E h \in HArgs :
       /\ Steppable(var, h)
       /\ var' = AfterStep(var, h,
                           ExplicitTrapezoidal_step(var, var.t, var.u, h),
                           FALSE, FALSE, <<>>, var.error)
  /\ UNCHANGED <<sch, ode, nh>>

RungeKutta34Step ==
  /\ var.cls = "RungeKutta34"
  /\ \E h \in HArgs :
       /\ Steppable(var, h)
       /\ var' = AfterStep(var, h, RungeKutta34_step(var, var.t, var.u, h),
                           FALSE, FALSE, <<>>,
                           RungeKutta34_step(var, var.t, var.u, h).error)
  /\ UNCHANGED <<sch, ode, nh>>

\* the outer loop calls increment_stepsize after a step; the estimate is one
\* on which the power is exact
IncrementStepsize ==
  /\ var.cls = "RungeKutta34"
  /\ var.last.kind = "step"
  /\ AboveFloor(var.error) => HasRoot(RDiv(tol, var.error))
  /\ var' = [increment_stepsize(var) EXCEPT
               !.last = [var.last EXCEPT !.kind = "inc", !.h0 = var.h,
                                         !.hset0 = var.hset,
                                         !.err0 = var.error]]
  /\ UNCHANGED <<sch, ode, nh>>

(***************************************************************************)
(* ode15s: the adapter around the external solver scipy.integrate.ode.     *)
(* The solver is the environment: set_initial_value binds (y, t);          *)
(* integrate(target) either reaches the target (successful) or stalls at   *)
(* a time before it (not successful), holding some y in both cases.  Times *)
(* and states are integers.                                                *)
(***************************************************************************)
MaxOdeT == 4

OdeH == {1, 2}

OdeY == {0, 1}

\* outcomes of one integrate call: reached or not, the y held afterwards and,
\* for a stall, how far before the target the solver stopped
IntegrateOutcomes ==
  [ok : BOOLEAN, y : OdeY, short : 1..2]

\* scipy.integrate.ode.set_initial_value
set_initial_value(o, y0, t0) == [o EXCEPT !.t = t0, !.y = y0, !.ok = TRUE]

\* scipy.integrate.ode.integrate: a stall leaves the solver between its
\* current time and the target
integrate(o, target, out) ==
  IF out.ok
  THEN [o EXCEPT !.t = target, !.y = out.y, !.ok = TRUE]
  ELSE [o EXCEPT !.t = IF target - out.short < o.t THEN o.t
                       ELSE target - out.short,
                 !.y = out.y, !.ok = FALSE]

\* scipy.integrate.ode.successful
successful(o) == o.ok

OdeNoCall ==
  [kind |-> "none", argt |-> 0, argu |-> 0, h |-> 0, t0 |-> 0, target |-> 0,
   raised |-> FALSE, rt |-> 0, ry |-> 0, failed |-> FALSE, printed |-> <<>>]

OdeInit ==
  [inited |-> FALSE, variant |-> "none", t |-> 0, y |-> 0, ok |-> TRUE,
   roundoff |-> 0, last |-> OdeNoCall, prev |-> OdeNoCall]

\* ode15s.initialize: Scheme.initialize, then the solver variant is chosen
\* from the initial event and the solver is bound to it
ode15s_initialize(o, e0) ==
  set_initial_value(
    [o EXCEPT !.inited = TRUE, !.roundoff = 0,
              !.variant = IF e0.complex THEN "zvode" ELSE "vode"],
    e0.y, e0.t)

\* ode15s.step with a fault: the target is taken from the caller's t
ode15s_step_CallerTime(o, t, u, h, out) ==
  LET target == t + h
      o1     == integrate(o, target, out)
      call   == [kind |-> "step", argt |-> t, argu |-> u, h |-> h,
                 t0 |-> o.t, target |-> target, raised |-> FALSE,
                 rt |-> o1.t, ry |-> o1.y, failed |-> ~successful(o1),
                 printed |-> IF ~successful(o1) THEN <<"vode error">>
                             ELSE <<>>]
  IN  [o1 EXCEPT !.last = call, !.prev = o.last]

\* ode15s.step: t and u are not read; a solver that was not successful gets
\* a line printed, and the pair the solver holds is returned either way
ode15s_step(o, t, u, h, out) ==
  LET target == o.t + h
      o1     == integrate(o, target, out)
      call   == [kind |-> "step", argt |-> t, argu |-> u, h |-> h,
                 t0 |-> o.t, target |-> target, raised |-> FALSE,
                 rt |-> o1.t, ry |-> o1.y, failed |-> ~successful(o1),
                 printed |-> IF ~successful(o1) THEN <<"vode error">>
                             ELSE <<>>]
  IN  [o1 EXCEPT !.last = call, !.prev = o.last]

OdeInitialize ==
  /\ ~ode.inited
  /\ \E e0 \in [y : OdeY, t : {0, 1}, complex : BOOLEAN] :
       ode' = ode15s_initialize(ode, e0)
  /\ UNCHANGED <<sch, var, nh>>

OdeStep ==
  /\ ode.inited
  /\ \E t \in {0, MaxOdeT}, u \in OdeY, h \in OdeH,
        out \in IntegrateOutcomes :
       /\ ode.t + h <= MaxOdeT
       /\ ode' = ode15s_step(ode, t, u, h, out)
  /\ UNCHANGED <<sch, var, nh>>

(***************************************************************************)
(* NonHolonomic, on the ContactOscillator: u = (q1,q2,q3, v1,v2,v3, l).    *)
(***************************************************************************)
NHVals == {-1, 0, 2}

NHEps == {0, 1}

NHStates == [1..7 -> NHVals]

\* ContactOscillator.position
position(u) == <<u[1], u[2], u[3]>>

\* ContactOscillator.velocity
velocity(u) == <<u[4], u[5], u[6]>>

\* ContactOscillator.lag
lag(u) == <<u[7]>>

\* ContactOscillator.force
force(eps, u) ==
  LET q == position(u)
      w == <<q[3], 0, q[1]>>
  IN  [i \in 1..3 |-> -q[i] - eps * q[3] * q[1] * w[i]]

\* ContactOscillator.codistribution: one constraint row
codistribution(u) == << <<1, 0, position(u)[2]>> >>

RECURSIVE SumTo(_, _)
SumTo(g, n) == IF n = 0 THEN 0 ELSE g[n] + SumTo(g, n - 1)

\* tensordot(a, b, [0,0]) of a matrix and a vector: the first axes are
\* contracted
tensordot00(a, b) ==
  [i \in 1..Len(a[1]) |->
     SumTo([s \in 1..Len(a) |-> a[s][i] * b[s]], Len(a))]

\* tensordiag leaves a vector as it is
tensordiag(T) == T

\* NonHolonomic.reaction_force
reaction_force(u) == tensordiag(tensordot00(codistribution(u), lag(u)))

VAdd(a, b) == [i \in 1..Len(a) |-> a[i] + b[i]]

zeros_like(v) == [i \in 1..Len(v) |-> 0]

\* multi_dynamics with a fault: the force part is put in the position slot
multi_dynamics_Swapped(eps, u) ==
  LET v == velocity(u)
  IN  [tag \in {"LobattoIIIA", "LobattoIIIB"} |->
         IF tag = "LobattoIIIA" THEN v \o zeros_like(v)
         ELSE VAdd(force(eps, u), reaction_force(u)) \o zeros_like(v)]

\* NonHolonomic.multi_dynamics
multi_dynamics(eps, u) ==
  LET v == velocity(u)
  IN  [tag \in {"LobattoIIIA", "LobattoIIIB"} |->
         IF tag = "LobattoIIIA" THEN v \o zeros_like(v)
         ELSE zeros_like(v) \o VAdd(force(eps, u), reaction_force(u))]

NHInit ==
  [done |-> FALSE, eps |-> 0, u |-> [i \in 1..7 |-> 0],
   md |-> [tag \in {} |-> <<>>]]

\* the caller holds a state u of a system with parameter epsilon and has the
\* two vector fields evaluated there
MultiDynamics ==
  /\ ~nh.done
  /\ nh' = [nh EXCEPT !.done = TRUE, !.md = multi_dynamics(nh.eps, nh.u)]
  /\ UNCHANGED <<sch, var, ode>>

InitScheme ==
  /\ sch = SchInit
  /\ var = VarInit
  /\ ode = OdeInit
  /\ nh = NHInit

NextScheme == SchemeInitialize \/ SchemeStep

SpecScheme == InitScheme /\ [][NextScheme]_vars

InitVariants ==
  /\ sch = SchInit
  /\ var = VarInit
  /\ ode = OdeInit
  /\ nh = NHInit

NextVariants ==
  \/ Construct
  \/ ExplicitEulerStep
  \/ ImplicitEulerStep
  \/ RungeKutta4Step
  \/ ExplicitTrapezoidalStep
  \/ RungeKutta34Step
  \/ IncrementStepsize

SpecVariants == InitVariants /\ [][NextVariants]_vars

InitOde ==
  /\ sch = SchInit
  /\ var = VarInit
  /\ ode = OdeInit
  /\ nh = NHInit

NextOde == OdeInitialize \/ OdeStep

SpecOde == InitOde /\ [][NextOde]_vars

InitNH ==
  /\ sch = SchInit
  /\ var = VarInit
  /\ ode = OdeInit
  /\ \E eps \in NHEps, u \in NHStates :
       nh = [NHInit EXCEPT !.eps = eps, !.u = u]

NextNH == MultiDynamics

SpecNH == InitNH /\ [][NextNH]_vars

(***************************************************************************)
(* Claims about the default scheme, checked under SpecScheme.              *)
(***************************************************************************)
StepDone == sch.last.kind = "step"

\* C1: when FSolve signals non-convergence and Newton converges on the same
\* residual and guess, delta does not raise and returns
\* (t+h, reconstruct(Newton root)); when FSolve converges Newton is never
\* run and FSolve's root is the one returned.
C1_Fallback ==
  StepDone =>
    LET l        == sch.last
        residual == <<l.t0, l.u0, l.h>>
        fcall    == [solver |-> "FSolve", residual |-> residual, guess |-> 0]
        ncall    == [solver |-> "Newton", residual |-> residual, guess |-> 0]
    IN  /\ (~l.fs.ok /\ l.nw.ok) =>
             /\ ~l.d.raised
             /\ l.d.t1 = l.t0 + l.h
             /\ l.d.du = l.nw.root
             /\ l.d.calls = <<fcall, ncall>>
        /\ l.fs.ok =>
             /\ ~l.d.raised
             /\ l.d.t1 = l.t0 + l.h
             /\ l.d.du = l.fs.root
             /\ l.d.calls = <<fcall>>

C1_Witness ==
  /\ StepDone
  /\ ~sch.last.fs.ok
  /\ sch.last.nw.ok
  /\ sch.last.nw.root = 3
  /\ sch.last.d.du = 3
  /\ sch.last.t1 = sch.last.t0 + sch.last.h

\* C2: when FSolve and Newton both fail, delta and step raise: nothing is
\* returned to the caller, exactly the two solvers were tried, and the
\* roundoff accumulator is what it was before the call.
C2_BothFail ==
  (StepDone /\ ~sch.last.fs.ok /\ ~sch.last.nw.ok) =>
    /\ sch.last.d.raised
    /\ sch.last.raised
    /\ Len(sch.last.d.calls) = 2
    /\ sch.last.d.calls[1].solver = "FSolve"
    /\ sch.last.d.calls[2].solver = "Newton"
    /\ sch.roundoff = sch.last.c0
    /\ sch.t = sch.last.t0
    /\ sch.u = sch.last.u0

C2_Witness ==
  /\ StepDone
  /\ ~sch.last.fs.ok
  /\ ~sch.last.nw.ok
  /\ sch.last.raised
  /\ sch.last.c0 # 0
  /\ sch.roundoff = sch.last.c0

\* C4 as stated: every default step conserves u + c up to the increment,
\* u1 + c_after = u0 + c_before + du.
C4_Conserved ==
  (StepDone /\ ~sch.last.raised) =>
    sch.last.u1 + sch.roundoff = sch.last.u0 + sch.last.c0 + sch.last.d.du

\* C4 amended: initialize leaves c = 0; a step whose state is at least as
\* large as the updated accumulator c' = fl(c_before + du) satisfies
\* u1 + c_after = u0 + c' exactly, whatever u0 + c' loses; and a step with
\* c_before = 0 in which u0 + du is computed exactly leaves c = 0 and
\* u1 = u0 + du.
C4_Compensated ==
  /\ (sch.inited /\ sch.last.kind = "none") => sch.roundoff = 0
  /\ (StepDone /\ ~sch.last.raised) =>
       LET l  == sch.last
           c1 == Fl(l.c0 + l.d.du)
       IN  /\ Abs(l.u0) >= Abs(c1) => l.u1 + sch.roundoff = l.u0 + c1
           /\ (l.c0 = 0 /\ IsFloat(l.u0 + l.d.du)) =>
                (sch.roundoff = 0 /\ l.u1 = l.u0 + l.d.du)

\* a step in which u0 + c' is rounded and the lost part is kept in c
C4_Witness ==
  /\ StepDone
  /\ ~sch.last.raised
  /\ Abs(sch.last.u0) >= Abs(Fl(sch.last.c0 + sch.last.d.du))
  /\ ~IsFloat(sch.last.u0 + Fl(sch.last.c0 + sch.last.d.du))
  /\ sch.roundoff # 0
  /\ sch.last.c0 # 0

(***************************************************************************)
(* Claims about the variants, checked under SpecVariants.                  *)
(***************************************************************************)
VarStepDone(cls) == var.last.kind = "step" /\ var.cls = cls

\* C3: when FSolve signals non-convergence in ImplicitEuler.step and Newton
\* would converge on the same residual and guess, the step recovers: it
\* does not raise, and Newton was run after FSolve on that residual and
\* guess.
C3_ImplicitEulerFallback ==
  (VarStepDone("ImplicitEuler") /\ var.last.hset0
     /\ ~var.last.fsok /\ var.last.nwok) =>
    /\ ~var.last.raised
    /\ Len(var.last.calls) = 2
    /\ var.last.calls[2].solver = "Newton"
    /\ var.last.calls[2].residual = var.last.calls[1].residual
    /\ var.last.calls[2].guess = var.last.calls[1].guess

\* C5: ExplicitEuler.step(t,u,h) returns the state u + h*f(t,u) for the h
\* passed to step, whatever step size the scheme has stored.
C5_ExplicitEuler ==
  (VarStepDone("ExplicitEuler") /\ ~var.last.raised) =>
    var.last.u1 =
      RAdd(var.last.u0,
           RMul(var.last.harg, RMul(RInt(var.lam), var.last.u0)))

\* C6: every variant's step returns t + h as its time, h being the step
\* size passed to that call, whatever self.h is.
C6_TimeComponent ==
  (var.last.kind = "step" /\ ~var.last.raised) =>
    var.last.t1 = RAdd(var.last.t0, var.last.harg)

OdeStepDone == ode.last.kind = "step"

\* what the caller of step gets from a call: whether it raised and the pair
\* it returned
OdeView(c) == <<c.raised, c.rt, c.ry>>

\* C8: a step whose solver was not successful does not raise and returns
\* the (t, y) the solver holds, and the caller can tell it from a successful
\* step: a failed call and a successful call never hand the same thing to
\* their caller.
C8_FailureSurfaced ==
  /\ (OdeStepDone /\ ode.last.failed) =>
       (~ode.last.raised /\ ode.last.rt = ode.t /\ ode.last.ry = ode.y)
  /\ (OdeStepDone /\ ode.prev.kind = "step"
        /\ ode.last.failed # ode.prev.failed) =>
       OdeView(ode.last) # OdeView(ode.prev)

\* C10 as stated: the targets of successive step calls are strictly
\* increasing.
C10_TargetsIncrease ==
  (OdeStepDone /\ ode.prev.kind = "step") =>
    ode.last.target > ode.prev.target

\* C10 amended: each step asks the solver to integrate to its own current
\* time plus h, whatever t and u the caller passes, so with h > 0 the target
\* is strictly after the solver's time and the solver is never asked to go
\* back; the target is strictly after the previous call's target whenever
\* the previous call reached its target.
C10_Monotone ==
  OdeStepDone =>
    /\ ode.last.target = ode.last.t0 + ode.last.h
    /\ ode.last.target > ode.last.t0
    /\ ode.t >= ode.last.t0
    /\ (ode.prev.kind = "step" /\ ~ode.prev.failed) =>
         ode.last.target > ode.prev.target

\* two steps in a row, the caller passing a time that is not the solver's
C10_Witness ==
  /\ OdeStepDone
  /\ ode.prev.kind = "step"
  /\ ~ode.prev.failed
  /\ ode.last.argt # ode.last.t0
  /\ ode.last.target > ode.prev.target

(***************************************************************************)
(* Claims about NonHolonomic, checked under SpecNH.                        *)
(***************************************************************************)
\* C9: multi_dynamics(u) returns exactly two contributions: the kinematic
\* part [velocity(u), 0] and the force part
\* [0, force(u) + reaction_force(u)], the zero blocks having the size of the
\* velocity; their sum is [velocity(u), force(u) + reaction_force(u)].
C9_Split ==
  nh.done =>
    LET u  == nh.u
        v  == <<u[4], u[5], u[6]>>
        fo == <<-u[1] - nh.eps * u[3] * u[1] * u[3], -u[2],
                -u[3] - nh.eps * u[3] * u[1] * u[1]>>
        re == <<u[7], 0, u[2] * u[7]>>
        fr == <<fo[1] + re[1], fo[2] + re[2], fo[3] + re[3]>>
        A  == nh.md["LobattoIIIA"]
        B  == nh.md["LobattoIIIB"]
    IN  /\ DOMAIN nh.md = {"LobattoIIIA", "LobattoIIIB"}
        /\ fo = force(nh.eps, u)
        /\ re = reaction_force(u)
        /\ A = v \o <<0, 0, 0>>
        /\ B = <<0, 0, 0>> \o fr
        /\ VAdd(A, B) = v \o fr

C9_Witness ==
  /\ nh.done
  /\ nh.eps = 1
  /\ nh.u[7] = 2
  /\ nh.u[2] = -1
  /\ nh.u[1] = 2
  /\ nh.u[3] = 2
  /\ nh.md["LobattoIIIB"] = <<0, 0, 0, -8, 1, -12>>

=============================================================================
